---- MODULE Spec2Model ----
(***************************************************************************)
(* AI Learning Intelligence Tool: the training script                      *)
(* (scripts/train_models.py) and the serving application (app/main.py).    *)
(*                                                                         *)
(* Four specifications share the variables below:                          *)
(*   SpecTrain   one run of train_models() over a data file, next to the   *)
(*               inference-time aggregation of the same events;            *)
(*   SpecRisk    the risk tiering of predict_completion on a probability;  *)
(*   SpecPredict the application serving one request at a time, uploads    *)
(*               drawn from every table of at most MaxUploadRows rows;     *)
(*   Spec        the application serving NumRequests concurrent requests.  *)
(***************************************************************************)
EXTENDS Integers, Sequences, FiniteSets, TLC

VARIABLES
    mode,              \* which program runs: "train", "risk", "single", "service"
    \* ---- scripts/train_models.py: locals of train_models() ----
    train_pc,          \* position of the script
    data_file,         \* data/student_data.csv as written on disk
    X,                 \* student_features without 'completed' (line 38)
    saved_difficulty,  \* models/difficulty_stats.csv (line 77)
    features,          \* preprocess_student_data() of the same events (main.py 38-49)
    \* ---- app/main.py: risk logic on one probability ----
    prob, risk_level,
    \* ---- app/main.py: module globals and requests in flight ----
    started,           \* the module-level try/except has run
    load_failed,       \* the artifact files that were not loadable at startup
    model, scaler, difficulty_stats,
    req                \* request slot -> the handler's position, input and response

vars == <<mode, train_pc, data_file, X, saved_difficulty, features, prob, risk_level,
          started, load_failed, model, scaler, difficulty_stats, req>>

trainVars == <<train_pc, data_file, X, saved_difficulty, features>>
riskVars == <<prob, risk_level>>
appVars == <<started, load_failed, model, scaler, difficulty_stats, req>>

\* ------------------------------------------------------------------ bounds
MaxRows == 3           \* rows of the training data file
MaxUploadRows == 3
NumRequests == 3

\* ------------------------------------------------------- float64 values
\* A float is NaN or the rational n/d in lowest terms with d > 0.  Rounding
\* error of the binary representation is not modelled.
NaN == [nan |-> TRUE, n |-> 0, d |-> 1]

RECURSIVE GCD(_, _)
GCD(a, b) == IF b = 0 THEN a ELSE GCD(b, a % b)

Abs(a) == IF a < 0 THEN -a ELSE a

Rat(n, d) ==
    LET s == IF d < 0 THEN -1 ELSE 1
        g == GCD(Abs(n), Abs(d))
    IN  [nan |-> FALSE, n |-> (s * n) \div g, d |-> (s * d) \div g]

Num(i) == [nan |-> FALSE, n |-> i, d |-> 1]

IsNaN(a) == a.nan

FAdd(a, b) == IF a.nan \/ b.nan THEN NaN ELSE Rat(a.n * b.d + b.n * a.d, a.d * b.d)
FSub(a, b) == IF a.nan \/ b.nan THEN NaN ELSE Rat(a.n * b.d - b.n * a.d, a.d * b.d)
FMul(a, b) == IF a.nan \/ b.nan THEN NaN ELSE Rat(a.n * b.n, a.d * b.d)
\* IEEE division: 0/0 is NaN.  x/0 with x # 0 (an infinity) does not arise: every
\* divisor below is a group size, a fitted scale, or the maximum of non-negative
\* means, which is 0 only when every dividend is 0 too.
FDiv(a, b) ==
    IF a.nan \/ b.nan THEN NaN
    ELSE IF b.n = 0 /\ a.n = 0 THEN NaN
    ELSE Rat(a.n * b.d, a.d * b.n)
FLeq(a, b) == ~a.nan /\ ~b.nan /\ a.n * b.d <= b.n * a.d

RECURSIVE ISqrtIn(_, _, _)
\* the largest r in lo..hi with r * r <= k, by bisection
ISqrtIn(k, lo, hi) ==
    IF lo = hi THEN lo
    ELSE LET mid == (lo + hi + 1) \div 2
         IN  IF mid * mid <= k THEN ISqrtIn(k, mid, hi) ELSE ISqrtIn(k, lo, mid - 1)
\* sqrt to one decimal place (stands for the correctly rounded double)
FSqrt(a) ==
    LET k == (a.n * 100) \div a.d
    IN  IF a.nan THEN NaN ELSE Rat(ISqrtIn(k, 0, IF k > 40000 THEN 40000 ELSE k), 10)

\* ------------------------------------------------------------- CSV tables
\* A file is [columns |-> <<names>>, rows |-> <<row>>]; a row gives every cell
\* as written: ids are integers, score and time_spent are text.
ParseNum(t) ==
    CASE t = "0" -> 0 [] t = "10" -> 10 [] t = "40" -> 40 [] t = "100" -> 100

IsNumericText(t) == t \in {"0", "10", "40", "100"}

NumericColumns == {"score", "time_spent"}

SeqRange(s) == {s[i] : i \in 1..Len(s)}

\* pd.read_csv: a column is float64 when every cell of it parses, object otherwise
ColumnIsNumeric(file, c) ==
    /\ Len(file.rows) > 0
    /\ \A i \in 1..Len(file.rows) : IsNumericText(file.rows[i][c])

read_csv(file) ==
    [columns |-> file.columns,
     numeric |-> {c \in NumericColumns \cap SeqRange(file.columns) : ColumnIsNumeric(file, c)},
     rows |-> [i \in 1..Len(file.rows) |->
                  [c \in DOMAIN file.rows[i] |->
                      IF c \in NumericColumns /\ ColumnIsNumeric(file, c)
                      THEN ParseNum(file.rows[i][c]) ELSE file.rows[i][c]]]]

\* ------------------------------------------------- pandas groupby / agg
RECURSIVE SumSeq(_)
SumSeq(s) == IF s = <<>> THEN 0 ELSE Head(s) + SumSeq(Tail(s))

SumSq(s) == SumSeq([i \in 1..Len(s) |-> s[i] * s[i]])

MinOf(S) == CHOOSE x \in S : \A y \in S : x <= y
MaxOf(S) == CHOOSE x \in S : \A y \in S : y <= x

RECURSIVE SortedSeq(_)
\* groupby sorts the group keys ascending
SortedSeq(S) == IF S = {} THEN <<>> ELSE <<MinOf(S)>> \o SortedSeq(S \ {MinOf(S)})

\* Series.std(): the sample standard deviation (ddof = 1), NaN for one value
SampleStd(vals) ==
    LET n == Len(vals)
    IN  IF n < 2 THEN NaN
        ELSE FSqrt(Rat(n * SumSq(vals) - SumSeq(vals) * SumSeq(vals), n * (n - 1)))

\* one aggregation of one group's values (non-empty, in row order)
AggFn(how, vals) ==
    CASE how = "mean"  -> Rat(SumSeq(vals), Len(vals))
      [] how = "min"   -> Num(MinOf(SeqRange(vals)))
      [] how = "max"   -> Num(MaxOf(SeqRange(vals)))
      [] how = "std"   -> SampleStd(vals)
      [] how = "sum"   -> Num(SumSeq(vals))
      [] how = "first" -> Num(vals[1])

\* the aggregations that need numbers; min, max and first work on any column
Arithmetic == {"mean", "std", "sum"}

StudentRows(df, sid) == SelectSeq(df.rows, LAMBDA r : r.student_id = sid)

ColumnOf(rows, c) == [i \in 1..Len(rows) |-> rows[i][c]]

Failed(e) == [error |-> e, columns |-> <<>>, index |-> <<>>, data |-> <<>>]

\* df.groupby('student_id').agg({...}) followed by the '_'.join of the two
\* column levels.  aggs is the dict in insertion order, flattened to
\* <<column, how>> pairs.
GroupByStudentAgg(df, aggs) ==
    IF "student_id" \notin SeqRange(df.columns) THEN Failed("KeyError")
    ELSE IF \E i \in 1..Len(aggs) : aggs[i][1] \notin SeqRange(df.columns)
    THEN Failed("KeyError")
    ELSE IF \E i \in 1..Len(aggs) :
               /\ aggs[i][1] \in NumericColumns \ df.numeric
               /\ aggs[i][2] \in Arithmetic
    THEN Failed("TypeError")
    ELSE LET ids == SortedSeq({df.rows[i].student_id : i \in 1..Len(df.rows)})
         IN  [error |-> "none",
              columns |-> [i \in 1..Len(aggs) |-> aggs[i][1] \o "_" \o aggs[i][2]],
              index |-> ids,
              data |-> [sid \in SeqRange(ids) |->
                          [i \in 1..Len(aggs) |->
                              AggFn(aggs[i][2], ColumnOf(StudentRows(df, sid), aggs[i][1]))]]]

\* (mutant) the fill is left out: NaN stays in the frame
fillna0_omitted(frame) == frame

\* DataFrame.fillna(0)
fillna0(frame) ==
    [frame EXCEPT !.data =
        [sid \in DOMAIN frame.data |->
            [i \in DOMAIN frame.data[sid] |->
                IF IsNaN(frame.data[sid][i]) THEN Num(0) ELSE frame.data[sid][i]]]]

\* DataFrame.rename(columns={old: new})
rename(frame, old, new) ==
    [frame EXCEPT !.columns =
        [i \in DOMAIN frame.columns |-> IF frame.columns[i] = old THEN new ELSE frame.columns[i]]]

Without(s, c) == SelectSeq(s, LAMBDA x : x # c)

RECURSIVE DropAt(_, _, _)
DropAt(cols, vals, c) ==
    IF cols = <<>> THEN <<>>
    ELSE (IF Head(cols) = c THEN <<>> ELSE <<Head(vals)>>) \o DropAt(Tail(cols), Tail(vals), c)

\* DataFrame.drop(columns=[c])
drop(frame, c) ==
    [frame EXCEPT !.columns = Without(frame.columns, c),
                  !.data = [sid \in DOMAIN frame.data |-> DropAt(frame.columns, frame.data[sid], c)]]

\* ------------------------------------------- app/main.py: the aggregation
\* (mutant) the inference dict lists time_spent before score
InferenceAggs_reordered ==
    << <<"time_spent", "sum">>, <<"time_spent", "mean">>, <<"time_spent", "std">>,
       <<"score", "mean">>, <<"score", "min">>, <<"score", "max">>, <<"score", "std">>,
       <<"chapter_id", "max">> >>

InferenceAggs ==
    << <<"score", "mean">>, <<"score", "min">>, <<"score", "max">>, <<"score", "std">>,
       <<"time_spent", "sum">>, <<"time_spent", "mean">>, <<"time_spent", "std">>,
       <<"chapter_id", "max">> >>

preprocess_student_data(df) ==
    LET student_features == GroupByStudentAgg(df, InferenceAggs)
    IN  IF student_features.error # "none" THEN student_features
        ELSE fillna0(student_features)

\* ---------------------------------- scripts/train_models.py: aggregation
TrainingAggs ==
    << <<"score", "mean">>, <<"score", "min">>, <<"score", "max">>, <<"score", "std">>,
       <<"time_spent", "sum">>, <<"time_spent", "mean">>, <<"time_spent", "std">>,
       <<"chapter_id", "max">>, <<"completed", "first">> >>

\* lines 23-35: student_features with the target column
TrainStudentFeatures(df) ==
    LET student_features == GroupByStudentAgg(df, TrainingAggs)
    IN  IF student_features.error # "none" THEN student_features
        ELSE fillna0(rename(student_features, "completed_first", "completed"))

\* line 38
TrainX(df) ==
    LET student_features == TrainStudentFeatures(df)
    IN  IF student_features.error # "none" THEN student_features
        ELSE drop(student_features, "completed")

\* ------------------------- scripts/train_models.py: difficulty analysis
Courses == <<"C101", "C102">>

GroupRows(df, course, chapter) ==
    SelectSeq(df.rows, LAMBDA r : r.course_id = course /\ r.chapter_id = chapter)

RECURSIVE GroupKeys(_, _)
\* the observed (course_id, chapter_id) pairs, sorted as groupby sorts them
GroupKeys(df, courses) ==
    IF courses = <<>> THEN <<>>
    ELSE LET c == Head(courses)
             chapters == SortedSeq({df.rows[i].chapter_id :
                                      i \in {j \in 1..Len(df.rows) : df.rows[j].course_id = c}})
         IN  [i \in 1..Len(chapters) |-> <<c, chapters[i]>>] \o GroupKeys(df, Tail(courses))

\* lines 66-69: groupby(['course_id', 'chapter_id']).agg(mean, mean).reset_index()
DifficultyGroups(df) ==
    LET keys == GroupKeys(df, Courses)
    IN  [i \in 1..Len(keys) |->
            LET rows == GroupRows(df, keys[i][1], keys[i][2])
            IN  [course_id |-> keys[i][1], chapter_id |-> keys[i][2],
                 score |-> AggFn("mean", ColumnOf(rows, "score")),
                 time_spent |-> AggFn("mean", ColumnOf(rows, "time_spent"))]]

\* Series.max() of a column of floats without NaN; NaN for an empty column
SeriesMax(col) ==
    IF col = <<>> THEN NaN
    ELSE CHOOSE x \in SeqRange(col) : \A y \in SeqRange(col) : FLeq(y, x)

\* (mutant) the weight of the comment on line 72 instead of the one of line 74
DifficultyScore_weight100(score, time_spent, max_time) ==
    FAdd(FSub(Num(100), score), FMul(FDiv(time_spent, max_time), Num(100)))

\* line 74
DifficultyScore(score, time_spent, max_time) ==
    FAdd(FSub(Num(100), score), FMul(FDiv(time_spent, max_time), Num(50)))

\* lines 66-74: the table written to models/difficulty_stats.csv
DifficultyStats(df) ==
    LET groups == DifficultyGroups(df)
        max_time == SeriesMax(ColumnOf(groups, "time_spent"))
    IN  [i \in 1..Len(groups) |->
            [course_id |-> groups[i].course_id, chapter_id |-> groups[i].chapter_id,
             score |-> groups[i].score, time_spent |-> groups[i].time_spent,
             difficulty_score |->
                 DifficultyScore(groups[i].score, groups[i].time_spent, max_time)]]

\* ------------------------------------------------ the training data file
TrainColumns == <<"student_id", "course_id", "chapter_id", "time_spent", "score", "completed">>

Students == {1, 2}

\* (course_id, chapter_id) and (time_spent, score) as they occur in a row
TrainChapters == {<<"C101", 1>>, <<"C101", 2>>, <<"C102", 1>>}
TrainCells == {<<"0", "100">>, <<"10", "40">>}

TrainRows ==
    {[student_id |-> s, course_id |-> k[1], chapter_id |-> k[2],
      time_spent |-> c[1], score |-> c[2],
      completed |-> IF c[2] = "100" THEN 1 ELSE 0] :
        s \in Students, k \in TrainChapters, c \in TrainCells}

NoFile == [exists |-> FALSE, columns |-> <<>>, rows |-> <<>>]

DataFiles ==
    {[exists |-> TRUE, columns |-> TrainColumns, rows |-> rs] :
        rs \in UNION {[1..k -> TrainRows] : k \in 0..MaxRows}}

Unset == [error |-> "unset", columns |-> <<>>, index |-> <<>>, data |-> <<>>]

\* the same events as an upload to /predict: no 'completed' column
AsUpload(file) == [file EXCEPT !.columns = Without(file.columns, "completed")]

\* ------------------------------- scripts/train_models.py: train_models()
\* lines 14-19
TrainLoad ==
    /\ mode = "train" /\ train_pc = "start"
    /\ train_pc' = IF data_file.exists THEN "loaded" ELSE "returned"
    /\ UNCHANGED <<mode, data_file, X, saved_difficulty, features>>
    /\ UNCHANGED riskVars /\ UNCHANGED appVars

\* lines 23-39
TrainAggregate ==
    /\ mode = "train" /\ train_pc = "loaded"
    /\ X' = TrainX(read_csv(data_file))
    /\ train_pc' = IF X'.error # "none" THEN "crashed" ELSE "aggregated"
    /\ UNCHANGED <<mode, data_file, saved_difficulty, features>>
    /\ UNCHANGED riskVars /\ UNCHANGED appVars

\* lines 42-61: train_test_split needs a non-empty train and test set, which
\* test_size = 0.2 gives from two students on; then fit, report and dump.
TrainFit ==
    /\ mode = "train" /\ train_pc = "aggregated"
    /\ train_pc' = IF Len(X.index) < 2 THEN "crashed" ELSE "fitted"
    /\ UNCHANGED <<mode, data_file, X, saved_difficulty, features>>
    /\ UNCHANGED riskVars /\ UNCHANGED appVars

\* lines 65-79
TrainDifficulty ==
    /\ mode = "train" /\ train_pc = "fitted"
    /\ saved_difficulty' = DifficultyStats(read_csv(data_file))
    /\ train_pc' = "done"
    /\ UNCHANGED <<mode, data_file, X, features>>
    /\ UNCHANGED riskVars /\ UNCHANGED appVars

\* app/main.py line 67 on an upload of the same events, once the script has ended
InferPreprocess ==
    /\ mode = "train" /\ train_pc \in {"crashed", "done"} /\ features = Unset
    /\ features' = preprocess_student_data(read_csv(AsUpload(data_file)))
    /\ UNCHANGED <<mode, train_pc, data_file, X, saved_difficulty>>
    /\ UNCHANGED riskVars /\ UNCHANGED appVars

NoRisk == prob = 0 /\ risk_level = "unset"

\* the value None of each module global
NoModel == [loaded |-> FALSE, seed |-> 0]
NoScaler == [loaded |-> FALSE, mean |-> <<>>, scale |-> <<>>]
NoDifficulty == [loaded |-> FALSE, records |-> <<>>]

NoApp ==
    /\ started = FALSE /\ load_failed = {}
    /\ model = NoModel /\ scaler = NoScaler /\ difficulty_stats = NoDifficulty
    /\ req = <<>>

NoTrain ==
    /\ train_pc = "start" /\ data_file = NoFile
    /\ X = Unset /\ saved_difficulty = <<>> /\ features = Unset

InitTrain ==
    /\ mode = "train"
    /\ train_pc = "start"
    /\ data_file \in DataFiles \cup {NoFile}
    /\ X = Unset /\ saved_difficulty = <<>> /\ features = Unset
    /\ NoRisk /\ NoApp

NextTrain == TrainLoad \/ TrainAggregate \/ TrainFit \/ TrainDifficulty \/ InferPreprocess

SpecTrain == InitTrain /\ [][NextTrain]_vars

\* ------------------------------------------- app/main.py: the risk logic
\* Probabilities are counted in units of 1/10000.

\* (mutant) both thresholds taken inclusive
RiskLevel_inclusive(p) == IF p <= 3000 THEN "High" ELSE IF p <= 7000 THEN "Medium" ELSE "Low"

\* lines 83-87
RiskLevel(p) == IF p < 3000 THEN "High" ELSE IF p < 7000 THEN "Medium" ELSE "Low"

RiskLogic ==
    /\ mode = "risk" /\ risk_level = "unset"
    /\ risk_level' = RiskLevel(prob)
    /\ UNCHANGED <<mode, prob>>
    /\ UNCHANGED trainVars /\ UNCHANGED appVars

InitRisk ==
    /\ mode = "risk"
    /\ prob \in 0..10000 /\ risk_level = "unset"
    /\ NoTrain /\ NoApp

NextRisk == RiskLogic

SpecRisk == InitRisk /\ [][NextRisk]_vars

\* --------------------------------------------- app/main.py: the artifacts
\* The classifier and the scaler are library objects unpickled at startup.
\* A classifier is named by a seed and answers every scaled row with one
\* probability of a fixed table, the same for the same row: an opaque,
\* deterministic, total decision function.
ProbTable == <<0, 2940, 2960, 2999, 3000, 5000, 5040, 6960, 7000, 10000>>

RowHash(row) == SumSeq([i \in 1..Len(row) |-> Abs(row[i].n) + row[i].d])

\* model.predict_proba(X_scaled)[:, 1] for one row
predict_proba(m, row) == ProbTable[((RowHash(row) + m.seed) % Len(ProbTable)) + 1]

\* model.predict(X_scaled) for one row: the class of the larger probability,
\* class 0 on a tie
predict(m, row) == IF predict_proba(m, row) > 5000 THEN 1 ELSE 0

\* scaler.transform(features): (x - mean_) / scale_ per column; rejects a
\* matrix without rows
transform(sc, frame) ==
    IF frame.index = <<>> THEN Failed("ValueError")
    ELSE [frame EXCEPT !.data =
            [sid \in DOMAIN frame.data |->
                [i \in DOMAIN frame.data[sid] |->
                    FDiv(FSub(frame.data[sid][i], sc.mean[i]), sc.scale[i])]]]

Models == {[loaded |-> TRUE, seed |-> k] : k \in {0, 3}}

Scalers ==
    {[loaded |-> TRUE, mean |-> [i \in 1..8 |-> Num(0)], scale |-> [i \in 1..8 |-> Num(1)]],
     [loaded |-> TRUE, mean |-> [i \in 1..8 |-> Num(40)], scale |-> [i \in 1..8 |-> Num(20)]]}

DifficultyTables ==
    {[loaded |-> TRUE, records |-> <<>>],
     [loaded |-> TRUE,
      records |-> <<[course_id |-> "C101", chapter_id |-> 1, score |-> Num(40),
                     time_spent |-> Num(10), difficulty_score |-> Num(110)]>>]}

Artifacts == {"model", "scaler", "difficulty"}

\* ------------------------------------------------ app/main.py: the uploads
RequiredColumns == <<"student_id", "course_id", "chapter_id", "time_spent", "score">>

\* (chapter_id, time_spent, score) as they occur in an uploaded row
UploadCells == {<<1, "10", "40">>, <<2, "0", "100">>, <<1, "abc", "40">>, <<2, "10", "abc">>}

UploadRows ==
    {[student_id |-> s, course_id |-> "C101", chapter_id |-> c[1],
      time_spent |-> c[2], score |-> c[3]] : s \in Students, c \in UploadCells}

\* the header of an upload: every required column, or all but one
UploadHeaders == {RequiredColumns} \cup {Without(RequiredColumns, c) : c \in SeqRange(RequiredColumns)}

UploadsUpTo(k) ==
    {[exists |-> TRUE, columns |-> h, rows |-> rs] :
        h \in UploadHeaders, rs \in UNION {[1..j -> UploadRows] : j \in 0..k}}

\* the uploads each program is run on
Uploads ==
    IF mode = "single" THEN UploadsUpTo(MaxUploadRows)
    ELSE {u \in UploadsUpTo(1) :
            /\ u.columns = RequiredColumns /\ Len(u.rows) = 1
            /\ u.rows[1].student_id = 1}

Slots == IF mode = "single" THEN {1} ELSE 1..NumRequests

\* ---------------------------------------------- app/main.py: the responses
Idle == [kind |-> "none", pc |-> "idle", file |-> NoFile, probabilities |-> <<>>,
         status |-> 0, detail |-> "", body |-> <<>>]

HTTPException(q, code, text) ==
    [q EXCEPT !.pc = "done", !.status = code, !.detail = text, !.body = <<>>]

\* the 2-decimal values k/10000 halfway between two of them that round() takes
\* up: the double nearest to k/10000 lies above the decimal half
HalfUp ==
    {50, 250, 350, 550, 650, 850, 950, 1150, 1350, 1650, 1950, 2250, 2550, 2650, 2750,
     3150, 3250, 3350, 3750, 3850, 3950, 4050, 4450, 4550, 4650, 5050, 5150, 5250,
     5350, 5450, 5550, 6350, 6450, 6550, 6650, 6750, 6850, 7550, 7650, 7750, 7850,
     7950, 8050, 8750, 8850, 8950, 9050, 9150, 9250, 9350}

\* round(float(prob), 2)
Round2(p) ==
    LET q == p \div 100
        r == p % 100
    IN  IF r > 50 \/ (r = 50 /\ p \in HalfUp) THEN (q + 1) * 100 ELSE q * 100

\* (mutant) the tier is taken from the rounded probability
PredictionResult_tierOfRounded(student_id, p, pred) ==
    [student_id |-> student_id, completion_probability |-> Round2(p),
     predicted_completion |-> (pred # 0), risk_level |-> RiskLevel(Round2(p))]

\* lines 79-94: one entry of results
PredictionResult(student_id, p, pred) ==
    [student_id |-> student_id, completion_probability |-> Round2(p),
     predicted_completion |-> (pred # 0), risk_level |-> RiskLevel(p)]

\* (mutant) the loop stops one row early
Results_shortLoop(frame, predictions, probabilities) ==
    [idx \in 1..(Len(frame.index) - 1) |->
        PredictionResult(frame.index[idx], probabilities[idx], predictions[idx])]

\* lines 77-94: the loop over features.iterrows()
Results(frame, predictions, probabilities) ==
    [idx \in 1..Len(frame.index) |->
        PredictionResult(frame.index[idx], probabilities[idx], predictions[idx])]

\* lines 62-99: the body of the try block, on one upload
PredictBody(q, m, sc) ==
    LET df == read_csv(q.file)
        feats == preprocess_student_data(df)
        X_scaled == IF feats.error # "none" THEN feats ELSE transform(sc, feats)
        predictions == [idx \in 1..Len(X_scaled.index) |->
                           predict(m, X_scaled.data[X_scaled.index[idx]])]
        probabilities == [idx \in 1..Len(X_scaled.index) |->
                             predict_proba(m, X_scaled.data[X_scaled.index[idx]])]
    IN  IF X_scaled.error # "none"
        THEN HTTPException(q, 400, "Error processing file: " \o X_scaled.error)
        ELSE [q EXCEPT !.pc = "done", !.status = 200,
                       !.probabilities = probabilities,
                       !.body = Results(feats, predictions, probabilities)]

\* lines 104-108
DifficultyBody(q, stats) ==
    IF ~stats.loaded THEN HTTPException(q, 500, "Difficulty stats not loaded.")
    ELSE [q EXCEPT !.pc = "done", !.status = 200, !.body = stats.records]

\* lines 115-120
InsightsBody(q) ==
    [q EXCEPT !.pc = "done", !.status = 200,
              !.body = <<"AI Learning Intelligence Tool is active.",
                         "Random Forest Classifier", "1.0.0">>]

\* ------------------------------------------------ app/main.py: the actions
AppMode == mode \in {"single", "service"}

\* lines 18-27: the three loads in one try block; any failure resets all three
LoadArtifacts ==
    /\ AppMode /\ ~started
    /\ \E bad \in SUBSET Artifacts, m \in Models, sc \in Scalers, d \in DifficultyTables :
          /\ load_failed' = bad
          /\ IF bad = {}
             THEN model' = m /\ scaler' = sc /\ difficulty_stats' = d
             ELSE model' = NoModel /\ scaler' = NoScaler /\ difficulty_stats' = NoDifficulty
    /\ started' = TRUE
    /\ UNCHANGED <<mode, req>>
    /\ UNCHANGED trainVars /\ UNCHANGED riskVars

\* lines 54-63: the handler up to the await of file.read()
PredictBegin(r) ==
    /\ AppMode /\ started /\ req[r].pc = "idle"
    /\ \E u \in Uploads :
          LET q == [req[r] EXCEPT !.kind = "predict", !.file = u]
          IN  req' = [req EXCEPT ![r] =
                        IF ~model.loaded THEN HTTPException(q, 500, "Model not loaded.")
                        ELSE [q EXCEPT !.pc = "reading"]]
    /\ UNCHANGED <<mode, started, load_failed, model, scaler, difficulty_stats>>
    /\ UNCHANGED trainVars /\ UNCHANGED riskVars

\* (mutant) the scaler is fitted again on the request's features
PredictResume_refit(r) ==
    /\ AppMode /\ started /\ req[r].pc = "reading"
    /\ req' = [req EXCEPT ![r] = PredictBody(req[r], model, scaler)]
    /\ scaler' = [scaler EXCEPT !.mean = [i \in 1..8 |-> Num(Len(req[r].file.rows))]]
    /\ UNCHANGED <<mode, started, load_failed, model, difficulty_stats>>
    /\ UNCHANGED trainVars /\ UNCHANGED riskVars

\* lines 63-99: the handler from the end of the await to its response
PredictResume(r) ==
    /\ AppMode /\ started /\ req[r].pc = "reading"
    /\ req' = [req EXCEPT ![r] = PredictBody(req[r], model, scaler)]
    /\ UNCHANGED <<mode, started, load_failed, model, scaler, difficulty_stats>>
    /\ UNCHANGED trainVars /\ UNCHANGED riskVars

\* lines 101-108
GetDifficulty(r) ==
    /\ AppMode /\ started /\ req[r].pc = "idle"
    /\ req' = [req EXCEPT ![r] = DifficultyBody([req[r] EXCEPT !.kind = "difficulty"], difficulty_stats)]
    /\ UNCHANGED <<mode, started, load_failed, model, scaler, difficulty_stats>>
    /\ UNCHANGED trainVars /\ UNCHANGED riskVars

\* lines 110-120
GetInsights(r) ==
    /\ AppMode /\ started /\ req[r].pc = "idle"
    /\ req' = [req EXCEPT ![r] = InsightsBody([req[r] EXCEPT !.kind = "insights"])]
    /\ UNCHANGED <<mode, started, load_failed, model, scaler, difficulty_stats>>
    /\ UNCHANGED trainVars /\ UNCHANGED riskVars

InitApp(md) ==
    /\ mode = md
    /\ started = FALSE /\ load_failed = {}
    /\ model = NoModel /\ scaler = NoScaler /\ difficulty_stats = NoDifficulty
    /\ req = [r \in Slots |-> Idle]
    /\ NoTrain /\ NoRisk

Next ==
    \/ LoadArtifacts
    \/ \E r \in Slots : PredictBegin(r)
    \/ \E r \in Slots : PredictResume(r)
    \/ \E r \in Slots : GetDifficulty(r)
    \/ \E r \in Slots : GetInsights(r)

Init == InitApp("service")

Spec == Init /\ [][Next]_vars

InitPredict == InitApp("single")

SpecPredict == InitPredict /\ [][Next]_vars

\* ===================================================== claims, SpecTrain
FeatureOrder ==
    <<"score_mean", "score_min", "score_max", "score_std",
      "time_spent_sum", "time_spent_mean", "time_spent_std", "chapter_id_max">>

\* C1: for every event batch the training-time feature frame (after the drop of
\* 'completed') and the inference-time feature frame are equal: the same
\* students, the same eight columns in the same order, the same values with
\* undefined ones filled by 0.
C1_SameFeatures ==
    (X # Unset /\ features # Unset) =>
        /\ X = features
        /\ X.error = "none" => X.columns = FeatureOrder

C1_Witness ==
    /\ X.error = "none" /\ features.error = "none"
    /\ Len(X.index) = 2 /\ Len(data_file.rows) = 3
    /\ \E sid \in SeqRange(features.index) : features.data[sid][4] # Num(0)

RowsOfStudent(sid) == {i \in 1..Len(data_file.rows) : data_file.rows[i].student_id = sid}

SingleEventVector(row) ==
    <<Num(ParseNum(row.score)), Num(ParseNum(row.score)), Num(ParseNum(row.score)), Num(0),
      Num(ParseNum(row.time_spent)), Num(ParseNum(row.time_spent)), Num(0),
      Num(row.chapter_id)>>

\* C4: a student with exactly one event gets score_std = 0 and time_std = 0, and
\* the six other fields are that event's score, time_spent and chapter_id, in
\* the training frame and in the inference frame.
C4_SingleEventStd ==
    \A sid \in Students :
        Cardinality(RowsOfStudent(sid)) = 1 =>
            LET row == data_file.rows[CHOOSE i \in RowsOfStudent(sid) : TRUE]
            IN  /\ X # Unset => X.data[sid] = SingleEventVector(row)
                /\ features # Unset => features.data[sid] = SingleEventVector(row)

C4_Witness ==
    /\ X.error = "none" /\ features.error = "none"
    /\ \E sid \in Students : Cardinality(RowsOfStudent(sid)) = 1
    /\ \E sid \in Students : Cardinality(RowsOfStudent(sid)) = 2

\* ---- the difficulty table, stated over the multiset of events
ObservedPairs ==
    {<<data_file.rows[i].course_id, data_file.rows[i].chapter_id>> : i \in 1..Len(data_file.rows)}

PairRows(k) ==
    {i \in 1..Len(data_file.rows) :
        data_file.rows[i].course_id = k[1] /\ data_file.rows[i].chapter_id = k[2]}

RECURSIVE TotalOver(_, _)
TotalOver(S, c) ==
    IF S = {} THEN 0
    ELSE LET i == CHOOSE j \in S : TRUE
         IN  ParseNum(data_file.rows[i][c]) + TotalOver(S \ {i}, c)

\* a pair whose mean time_spent is the largest of the batch
SlowestPair ==
    CHOOSE k \in ObservedPairs : \A h \in ObservedPairs :
        TotalOver(PairRows(h), "time_spent") * Cardinality(PairRows(k))
            <= TotalOver(PairRows(k), "time_spent") * Cardinality(PairRows(h))

\* the exchanges of two rows; every reordering is a sequence of them, and every
\* reordering of a data file is a data file of the specification
RowOrders(n) ==
    {[k \in 1..n |-> IF k = i THEN j ELSE IF k = j THEN i ELSE k] : i, j \in 1..n}

Reordered(file, p) == [file EXCEPT !.rows = [i \in 1..Len(file.rows) |-> file.rows[p[i]]]]

C10_DifficultyDefined ==
    train_pc = "done" =>
        \A r \in SeqRange(saved_difficulty) :
            /\ ~IsNaN(r.difficulty_score)
            /\ FLeq(Num(0), r.difficulty_score) /\ FLeq(r.difficulty_score, Num(150))
            /\ r.time_spent = SeriesMax(ColumnOf(saved_difficulty, "time_spent"))
                 => r.difficulty_score = FAdd(FSub(Num(100), r.score), Num(50))

\* ====================================================== claims, SpecRisk
\* C2: the risk level is High exactly when p < 0.30, Medium exactly when
\* 0.30 <= p < 0.70 and Low exactly when p >= 0.70; 0.30 is Medium, 0.2999 is
\* High, 0.70 is Low and 0.6999 is Medium.
C2_RiskBoundaries ==
    risk_level # "unset" =>
        /\ risk_level = "High" <=> prob < 3000
        /\ risk_level = "Medium" <=> (3000 <= prob /\ prob < 7000)
        /\ risk_level = "Low" <=> prob >= 7000
        /\ prob = 3000 => risk_level = "Medium"
        /\ prob = 2999 => risk_level = "High"
        /\ prob = 7000 => risk_level = "Low"
        /\ prob = 6999 => risk_level = "Medium"

C2_Witness == prob = 3000 /\ risk_level = "Medium"

\* ============================================ claims, SpecPredict and Spec
Done(r) == req[r].pc = "done"

BatchStudents(file) == {file.rows[i].student_id : i \in 1..Len(file.rows)}

\* C3: a successful predict request returns exactly one result per distinct
\* student_id of its batch: none missing, none twice, none foreign.
C3_OnePerStudent ==
    \A r \in Slots :
        (Done(r) /\ req[r].kind = "predict" /\ req[r].status = 200) =>
            /\ {req[r].body[i].student_id : i \in 1..Len(req[r].body)} = BatchStudents(req[r].file)
            /\ Len(req[r].body) = Cardinality(BatchStudents(req[r].file))

C3_Witness ==
    \E r \in Slots :
        /\ Done(r) /\ req[r].kind = "predict" /\ req[r].status = 200
        /\ Len(req[r].file.rows) = 3 /\ Len(req[r].body) = 2

\* C5 (as claimed): the difficulty endpoint answers 500 only when the
\* difficulty table itself was not loadable, and the predict endpoint answers
\* 500 only when the classifier or the scaler was not loadable.
C5_IndependentPaths ==
    \A r \in Slots :
        Done(r) =>
            /\ (req[r].kind = "difficulty" /\ req[r].status = 500) => "difficulty" \in load_failed
            /\ (req[r].kind = "predict" /\ req[r].status = 500)
                  => load_failed \cap {"model", "scaler"} # {}

\* what each finished request must hold, given its input and the artifacts
ExpectedOf(q) ==
    CASE q.kind = "predict" ->
            IF ~model.loaded
            THEN HTTPException([Idle EXCEPT !.kind = "predict", !.file = q.file], 500, "Model not loaded.")
            ELSE PredictBody([Idle EXCEPT !.kind = "predict", !.file = q.file, !.pc = "reading"],
                             model, scaler)
      [] q.kind = "difficulty" -> DifficultyBody([Idle EXCEPT !.kind = "difficulty"], difficulty_stats)
      [] q.kind = "insights" -> InsightsBody([Idle EXCEPT !.kind = "insights"])

\* C6: once startup has run no step changes the classifier, the scaler or the
\* difficulty table, under every interleaving of the requests, and each finished
\* request holds the response its own input and those artifacts determine.
C6_ArtifactsReadOnly ==
    /\ [][started => /\ started'
                      /\ model' = model /\ scaler' = scaler
                      /\ difficulty_stats' = difficulty_stats]_vars
    /\ [](\A r \in Slots : Done(r) => req[r] = ExpectedOf(req[r]))

C6_Witness ==
    /\ model.loaded
    /\ \E r1, r2 \in Slots :
          /\ r1 # r2
          /\ req[r1].kind = "predict" /\ req[r1].pc = "reading"
          /\ req[r2].kind = "predict" /\ Done(r2) /\ req[r2].status = 200
    /\ \E r3 \in Slots : req[r3].kind = "difficulty" /\ Done(r3)

LacksColumn(file) == \E c \in SeqRange(RequiredColumns) : c \notin SeqRange(file.columns)

NonNumericCell(file) ==
    \E i \in 1..Len(file.rows) :
        ~IsNumericText(file.rows[i].score) \/ ~IsNumericText(file.rows[i].time_spent)

\* C7 (as claimed): with the artifacts loaded, a predict request whose batch
\* lacks one of the five required columns, or holds a non-numeric score or
\* time_spent, ends with a 4xx error and no predictions.
C7_BadInputRejected ==
    \A r \in Slots :
        (Done(r) /\ req[r].kind = "predict" /\ model.loaded
            /\ (LacksColumn(req[r].file) \/ NonNumericCell(req[r].file))) =>
                /\ req[r].status >= 400 /\ req[r].status < 500
                /\ req[r].body = <<>>

Tier(p) == IF p < 3000 THEN "High" ELSE IF p < 7000 THEN "Medium" ELSE "Low"

\* C9 (as claimed): in every result the risk_level is the tier of the reported,
\* 2-decimal-rounded completion_probability.
C9_TierOfReported ==
    \A r \in Slots :
        (Done(r) /\ req[r].kind = "predict" /\ req[r].status = 200) =>
            \A i \in 1..Len(req[r].body) :
                req[r].body[i].risk_level = Tier(req[r].body[i].completion_probability)

\* C9 (amended): the risk_level is the tier of the unrounded probability the
\* classifier gave for that student; it is the tier of the reported value too
\* unless rounding carried the probability up to 0.30 or to 0.70.
C9_TierOfRaw ==
    \A r \in Slots :
        (Done(r) /\ req[r].kind = "predict" /\ req[r].status = 200) =>
            \A i \in 1..Len(req[r].body) :
                LET raw == req[r].probabilities[i]
                    shown == req[r].body[i].completion_probability
                IN  /\ req[r].body[i].risk_level = Tier(raw)
                    /\ shown % 100 = 0 /\ shown - raw <= 50 /\ raw - shown <= 50
                    /\ ~(raw < 3000 /\ shown >= 3000) /\ ~(raw < 7000 /\ shown >= 7000)
                         => req[r].body[i].risk_level = Tier(shown)

C9_Witness ==
    \E r \in Slots :
        /\ Done(r) /\ req[r].kind = "predict" /\ req[r].status = 200
        /\ \E i \in 1..Len(req[r].body) :
              /\ req[r].probabilities[i] = 2960
              /\ req[r].body[i].completion_probability = 3000
              /\ req[r].body[i].risk_level = "High"

====
